---- MODULE Spec2Model ----
(***************************************************************************)
(* Model of the os-provisioner service (package osp): the "issue           *)
(* assignment" workflow of router.py with its background continuation,     *)
(* the retry loop of github.add_collaborator, and the webhook processor.   *)
(*                                                                         *)
(* The specifications share the definitions below:                          *)
(*   Spec        - interleaved issue_assignment runs and continuations     *)
(*   CollabSpec  - github.add_collaborator against a scripted backend      *)
(*   WebhookSpec - github_webhook deliveries against a populated table     *)
(*   CloneSpec   - github.clone_repo, one git subprocess after another      *)
(*   FairSpec    - Spec with every started request and task scheduled      *)
(*   SharedTemplateSpec - Spec on a table where two assignments name one    *)
(*                 template, with webhook deliveries                       *)
(***************************************************************************)
EXTENDS Integers, Sequences, FiniteSets, TLC

VARIABLES
    rows,          \* the repository table: set of Repository rows
    nextId,        \* next value of the repository.id sequence
    run,           \* per issue_assignment request: position and locals
    repos,         \* hosting provider: names of the repositories that exist
    teamGrants,    \* hosting provider: repositories granted to GITHUB_TEAM
    collaborators, \* hosting provider: <<repo_name, login>> with push access
    pushed,        \* hosting provider: repositories the template was pushed to
    protected,     \* hosting provider: <<repo_name, branch>> under protection
    closedPRs,     \* hosting provider: <<repo_name, pr_number>> closed
    sheet,         \* grading spreadsheet: <<row, column>> -> cell value
    backend,       \* CollabSpec: the backend's answer to the n-th request
    collab,        \* CollabSpec: the state of the add_collaborator call
    mirror,        \* CloneSpec: the state of the clone_repo call
    delivery,      \* WebhookSpec: the webhook being handled
    outcome,       \* WebhookSpec: what github_webhook did and answered
    replay         \* WebhookSpec: deliveries of this webhook handled so far,
                   \*   and the sheet and the provider before the first

vars == <<rows, nextId, run, repos, teamGrants, collaborators, pushed,
          protected, closedPRs, sheet, backend, collab, mirror, delivery,
          outcome, replay>>

provisionVars == <<rows, nextId, run, repos, teamGrants, collaborators, pushed>>
collabVars == <<backend, collab>>
cloneVars == <<mirror>>
webhookVars == <<delivery, outcome, replay>>

\* None where a string is expected; where a number is expected (a user id, a
\* row id, a sheet row, a pull request number, all positive) None is 0.
NoValue == "None"

(***************************************************************************)
(* Bounds of the model.                                                    *)
(***************************************************************************)
MaxRuns == 2          \* issue_assignment requests in one behaviour
MaxAttempts == 5      \* length of a scripted backend of add_collaborator
MaxDeliveries == 2    \* times the provider delivers one webhook

Runs == 1..MaxRuns
\* The ids of the users who sign in.
Users == {1, 2}

(***************************************************************************)
(* model.py                                                                *)
(***************************************************************************)
IN_PROGRESS == "IN_PROGRESS"
FINISHED == "FINISHED"
FAILED == "FAILED"
RepoStatus == {IN_PROGRESS, FINISHED, FAILED}

\* The assignment table. An Assignment has exactly the mapped columns of
\* model.py: id, owner, repo, name, order.
Assignment(id, owner, repo, name, order) ==
    [id |-> id, owner |-> owner, repo |-> repo, name |-> name, order |-> order]

AssignmentTable == {Assignment(1, "ct-itmo", "lab", "Lab", 0)}

\* An assignment table the schema also admits: Assignment has no unique
\* constraint on (owner, repo), so a second assignment may name the template
\* of the first.
SharedTemplateTable ==
    AssignmentTable \cup {Assignment(2, "ct-itmo", "lab", "Lab, again", 1)}

\* The ids a request path /assignment/{id:int}/process may carry: the ids of
\* the table and one id that names no assignment.
RequestedIds(assignments) == {a.id : a \in assignments} \cup {99}

\* None where an Assignment is expected.
NoAssignment == Assignment(0, NoValue, NoValue, NoValue, 0)

\* select(Assignment).where(Assignment.id == id) ... .one_or_none(), on the
\* assignment table `assignments`.
AssignmentIn(assignments, id) ==
    IF \E a \in assignments : a.id = id
    THEN CHOOSE a \in assignments : a.id = id
    ELSE NoAssignment

AssignmentById(id) == AssignmentIn(AssignmentTable, id)

\* A Repository row; status has the server default IN_PROGRESS.
Repository(id, user_id, assignment_id, repo_name, status) ==
    [id |-> id, user_id |-> user_id, assignment_id |-> assignment_id,
     repo_name |-> repo_name, status |-> status]

\* UniqueConstraint("user_id", "assignment_id")
RowsOf(table, user_id, assignment_id) ==
    {r \in table : r.user_id = user_id /\ r.assignment_id = assignment_id}

(***************************************************************************)
(* github.py: the hosting client                                           *)
(***************************************************************************)
\* A provider response: the status code and the messages of its "errors" list.
Answer(status, errors) == [status |-> status, errors |-> errors]

NAME_EXISTS_MESSAGE == "name already exists on this account"
RESTRICTED_MESSAGE == "User could not be added"
OTHER_MESSAGE == "Validation Failed"

\* httpx Response.raise_for_status raises HTTPStatusError on 4xx and 5xx.
RaisesForStatus(status) == status >= 400

\* create_repository(owner, repo) seen from its caller, for the provider's
\* response: "RepoExistsError", "HTTPStatusError" or "ok" (returns None).
CreateRepositoryTreatsAny422AsExists(response) ==
    IF response.status = 422 THEN "RepoExistsError"
    ELSE IF RaisesForStatus(response.status) THEN "HTTPStatusError"
    ELSE "ok"

create_repository(response) ==
    IF response.status = 422 /\ NAME_EXISTS_MESSAGE \in response.errors
    THEN "RepoExistsError"
    ELSE IF RaisesForStatus(response.status) THEN "HTTPStatusError"
    ELSE "ok"

\* The provider's answer to POST /orgs/{owner}/repos: a fault it may always
\* answer with, else decided by whether the name is taken.
CreateFaults == {Answer(422, {OTHER_MESSAGE}), Answer(500, {})}
CreateResponses(name) ==
    CreateFaults \cup
    {IF name \in repos THEN Answer(422, {NAME_EXISTS_MESSAGE}) ELSE Answer(201, {})}

SimpleCallNeverRaises(response) == "ok"

\* add_team, accept_invitation, protect_branch, close_pr, get_user_login:
\* one request followed by raise_for_status.
SimpleCall(response) ==
    IF RaisesForStatus(response.status) THEN "HTTPStatusError" ELSE "ok"

SimpleResponses == {Answer(200, {}), Answer(500, {})}

\* add_collaborator: `if retries == 3` and `asyncio.sleep(0.3 * retries)`;
\* delays are counted in tenths of a second.
MaxRetries == 3
BackoffTenths == 3

CollabAnswers ==
    {Answer(404, {}), Answer(201, {}), Answer(204, {}),
     Answer(422, {RESTRICTED_MESSAGE}), Answer(422, {OTHER_MESSAGE}),
     Answer(500, {})}

\* The call before its first request.
CollabStart ==
    [pc |-> "request", retries |-> 0, requests |-> 0, slept |-> 0,
     result |-> NoValue]

\* The code after the while loop, for the response that left the loop.
CollabAfterLoopNoRestrictedCheck(st, response) ==
    IF RaisesForStatus(response.status)
    THEN [st EXCEPT !.pc = "raised", !.result = "HTTPStatusError"]
    ELSE IF response.status = 204
    THEN [st EXCEPT !.pc = "returned", !.result = "no_invitation"]
    ELSE [st EXCEPT !.pc = "returned", !.result = "invitation"]

CollabAfterLoop(st, response) ==
    IF response.status = 422 /\ RESTRICTED_MESSAGE \in response.errors
    THEN [st EXCEPT !.pc = "raised", !.result = "AccountRestrictedError"]
    ELSE IF RaisesForStatus(response.status)
    THEN [st EXCEPT !.pc = "raised", !.result = "HTTPStatusError"]
    ELSE IF response.status = 204
    THEN [st EXCEPT !.pc = "returned", !.result = "no_invitation"]
    ELSE [st EXCEPT !.pc = "returned", !.result = "invitation"]

\* One pass of `while True`: the request, then break, raise, or sleep and
\* count the retry.
CollabStepNoRetryLimit(st, response) ==
    LET sent == [st EXCEPT !.requests = @ + 1] IN
    IF response.status # 404
    THEN CollabAfterLoop(sent, response)
    ELSE [sent EXCEPT !.slept = @ + BackoffTenths * st.retries,
                      !.retries = @ + 1]

CollabStepSleepsAfterIncrement(st, response) ==
    LET sent == [st EXCEPT !.requests = @ + 1] IN
    IF response.status # 404
    THEN CollabAfterLoop(sent, response)
    ELSE IF st.retries = MaxRetries
    THEN [sent EXCEPT !.pc = "raised", !.result = "HTTPStatusError"]
    ELSE [sent EXCEPT !.slept = @ + BackoffTenths * (st.retries + 1),
                      !.retries = @ + 1]

CollabStep(st, response) ==
    LET sent == [st EXCEPT !.requests = @ + 1] IN
    IF response.status # 404
    THEN CollabAfterLoop(sent, response)
    ELSE IF st.retries = MaxRetries
    THEN [sent EXCEPT !.pc = "raised", !.result = "HTTPStatusError"]
    ELSE [sent EXCEPT !.slept = @ + BackoffTenths * st.retries,
                      !.retries = @ + 1]

\* user_in_team: False on 404, an error on another failing status, else
\* whether the membership state is "active".
Membership(status, state) == [status |-> status, state |-> state]

TeamAnswers ==
    {Membership(404, NoValue), Membership(200, "active"),
     Membership(200, "pending"), Membership(500, NoValue)}

user_in_teamIgnoresState(response) ==
    IF response.status = 404 THEN [raised |-> NoValue, value |-> FALSE]
    ELSE IF RaisesForStatus(response.status)
    THEN [raised |-> "HTTPStatusError", value |-> FALSE]
    ELSE [raised |-> NoValue, value |-> TRUE]

user_in_team(response) ==
    IF response.status = 404 THEN [raised |-> NoValue, value |-> FALSE]
    ELSE IF RaisesForStatus(response.status)
    THEN [raised |-> "HTTPStatusError", value |-> FALSE]
    ELSE [raised |-> NoValue, value |-> response.state = "active"]

\* Strings of the signature header are sequences of tokens: a literal piece of
\* text (ASCII or not), or the hex digest of an HMAC-SHA256 (one token, equal
\* to another exactly when secret and data are equal).
Text(text) == [kind |-> "text", text |-> text, ascii |-> TRUE]
NonAsciiText == [kind |-> "text", text |-> "\\xe9", ascii |-> FALSE]
HexDigest(secret, data) ==
    <<[kind |-> "hexdigest", secret |-> secret, data |-> data, ascii |-> TRUE]>>

\* request.headers.get(...): None when the header is absent.
NoHeader == [present |-> FALSE, value |-> <<>>]
Header(value) == [present |-> TRUE, value |-> value]

\* The secret github.py imports from osp.config (config.py itself has no
\* entry of this name); the value the deployment configures.
GITHUB_WEBHOOK_SECRET == "webhook secret"
SIGNATURE_256_PREFIX == <<Text("sha256=")>>

\* str.startswith
StartsWith(str, prefix) ==
    Len(str) >= Len(prefix) /\ SubSeq(str, 1, Len(prefix)) = prefix

\* hmac.compare_digest on two str: TypeError unless both are ASCII.
IsAscii(str) == \A i \in 1..Len(str) : str[i].ascii
compare_digest(a, b) ==
    IF ~IsAscii(a) \/ ~IsAscii(b)
    THEN [raised |-> "TypeError", value |-> FALSE]
    ELSE [raised |-> NoValue, value |-> a = b]

\* verify_signature(data, signature)
verify_signature(data, signature) ==
    IF ~signature.present \/ ~StartsWith(signature.value, SIGNATURE_256_PREFIX)
    THEN [raised |-> NoValue, value |-> FALSE]
    ELSE LET signature_hex ==
                SubSeq(signature.value, Len(SIGNATURE_256_PREFIX) + 1,
                       Len(signature.value))
         IN compare_digest(signature_hex,
                           HexDigest(GITHUB_WEBHOOK_SECRET, data))

\* How a git subprocess ends: it exits with code 0 or another code; a
\* `git clone` or `git push` that is still running after the 30 s of
\* wait_for times out; `git remote set-url` is waited for without a bound and
\* may never end.
GitExits ==
    [clone : {"exit0", "nonzero", "timeout"},
     set_url : {"exit0", "nonzero", "hang"},
     push : {"exit0", "nonzero", "timeout"}]

\* clone_repo, for the ways its subprocesses end: whether it returns or
\* raises at all, the exception it raises (or None), the subprocesses it
\* started and those it killed, and whether the temporary directory exists
\* afterwards.
CloneEnd(raised, started, killed) ==
    [ends |-> TRUE, raised |-> raised, started |-> started,
     killed |-> killed, tempDir |-> FALSE]

clone_repo(exits) ==
    IF exits.clone = "timeout"
    THEN CloneEnd("CloneError: git clone timed out", <<"clone">>, {"clone"})
    ELSE IF exits.clone # "exit0"
    THEN CloneEnd("CloneError: git clone failed", <<"clone">>, {})
    ELSE IF exits.set_url = "hang"
    THEN [ends |-> FALSE, raised |-> NoValue,
          started |-> <<"clone", "set_url">>, killed |-> {},
          tempDir |-> TRUE]
    ELSE IF exits.set_url # "exit0"
    THEN CloneEnd("CloneError: git remote set-url failed",
                  <<"clone", "set_url">>, {})
    ELSE IF exits.push = "timeout"
    THEN CloneEnd("CloneError: git push timed out",
                  <<"clone", "set_url", "push">>, {"push"})
    ELSE IF exits.push # "exit0"
    THEN CloneEnd("CloneError: git push failed",
                  <<"clone", "set_url", "push">>, {})
    ELSE CloneEnd(NoValue, <<"clone", "set_url", "push">>, {})

\* The call of clone_repo, step by step. `step` is the subprocess at hand.
MirrorStart(exits) ==
    [pc |-> "enter", exits |-> exits, step |-> "clone", started |-> <<>>,
     killed |-> {}, tempDir |-> FALSE, raised |-> NoValue]

NoMirror ==
    MirrorStart([clone |-> "exit0", set_url |-> "exit0", push |-> "exit0"])

GitSteps == <<"clone", "set_url", "push">>
StepAfter(step) ==
    GitSteps[(CHOOSE i \in 1..Len(GitSteps) : GitSteps[i] = step) + 1]

(***************************************************************************)
(* gspread.py: the grading spreadsheet                                     *)
(***************************************************************************)
\* Column.LINK, Column.DATE, Column.BONUS
LINK == 1
DATE == 2
BONUS == 3

get_column(order, column) == 4 + order * 3 + column

\* Column A of the worksheet: a header cell (no user id, written 0), then the
\* ids of the students the sheet lists (user 1 is listed, the others are not).
ColumnA == <<0, 1>>

\* get_row: users.index(str(user_id)) + 1, None when the user is not listed.
get_row(user_id) ==
    IF \E i \in 1..Len(ColumnA) : ColumnA[i] = user_id
    THEN CHOOSE i \in 1..Len(ColumnA) :
            ColumnA[i] = user_id /\ \A j \in 1..(i - 1) : ColumnA[j] # user_id
    ELSE 0

\* worksheet.update_cell(row, column, value)
UpdateCell(cells, row, column, value) ==
    [c \in DOMAIN cells \cup {<<row, column>>} |->
        IF c = <<row, column>> THEN value ELSE cells[c]]

EmptySheet == [c \in {} |-> NoValue]

\* The HYPERLINK formula add_repo_link writes.
Hyperlink(owner, repo_name, url_suffix, label) ==
    [owner |-> owner, repo_name |-> repo_name, url_suffix |-> url_suffix,
     label |-> label]

add_repo_linkIgnoresPull(cells, repository, assignment, pull_id, label) ==
    LET row == get_row(repository.user_id) IN
    IF row = 0 THEN cells
    ELSE UpdateCell(cells, row, get_column(assignment.order, LINK),
            Hyperlink(assignment.owner, repository.repo_name, <<"pulls">>,
                      label))

\* add_repo_link(repository, pull_id, label): the sheet afterwards.
add_repo_link(cells, repository, assignment, pull_id, label) ==
    LET row == get_row(repository.user_id) IN
    IF row = 0 THEN cells
    ELSE UpdateCell(cells, row, get_column(assignment.order, LINK),
            Hyperlink(assignment.owner, repository.repo_name,
                      IF pull_id = 0 THEN <<"pulls">>
                      ELSE <<"pull", pull_id, "files">>,
                      label))

\* add_score(repository, bonus): the date cell, then the bonus cell.
Today == "today"
add_scoreAccumulates(cells, repository, assignment, bonus) ==
    LET row == get_row(repository.user_id)
        cell == <<row, get_column(assignment.order, BONUS)>>
    IN
    IF row = 0 THEN cells
    ELSE UpdateCell(
            UpdateCell(cells, row, get_column(assignment.order, DATE), Today),
            row, get_column(assignment.order, BONUS),
            IF cell \in DOMAIN cells THEN cells[cell] + bonus ELSE bonus)

add_score(cells, repository, assignment, bonus) ==
    LET row == get_row(repository.user_id) IN
    IF row = 0 THEN cells
    ELSE UpdateCell(
            UpdateCell(cells, row, get_column(assignment.order, DATE), Today),
            row, get_column(assignment.order, BONUS), bonus)

(***************************************************************************)
(* router.py: issue_assignment and process_repo                            *)
(***************************************************************************)
\* repo_name = f"{assignment.repo}-{user.id}"
RepoName(assignment, user_id) == <<assignment.repo, "-", user_id>>

\* The login get_user_login resolves for the token of a user.
LoginOf(user_id) == <<"login", user_id>>

\* insert(Repository).values(user_id, assignment_id, repo_name)
\*   .on_conflict_do_update(index_elements=[user_id, assignment_id],
\*                          set_={status: IN_PROGRESS})
UpsertAlwaysInserts(table, id, user_id, assignment_id, repo_name) ==
    table \cup {Repository(id, user_id, assignment_id, repo_name, IN_PROGRESS)}

Upsert(table, id, user_id, assignment_id, repo_name) ==
    IF RowsOf(table, user_id, assignment_id) # {}
    THEN {IF r.user_id = user_id /\ r.assignment_id = assignment_id
          THEN [r EXCEPT !.status = IN_PROGRESS] ELSE r : r \in table}
    ELSE table \cup
         {Repository(id, user_id, assignment_id, repo_name, IN_PROGRESS)}

\* repository.status = status; session.commit(): the UPDATE of the row the
\* continuation holds, by primary key.
SetStatus(table, id, status) ==
    {IF r.id = id THEN [r EXCEPT !.status = status] ELSE r : r \in table}

\* A request of issue_assignment and the background task it schedules:
\*   pc, user, assignment  position and the locals of the handler
\*   answer      the provider's response to the handler's last hosting request
\*   collab      the state of the add_collaborator call in progress
\*   trace       the calls the handler has made so far; the handler's frame
\*               ends when its response is sent
\*   response    the HTTP status the caller got (0: none yet), error: its cause
\*   repository  the primary key of the row the background task was given
\*   bg          the background task: none, running, finished (FINISHED is
\*               committed), failed (FAILED is committed), raised (an
\*               exception left process_repo)
\*   bgTrace     the calls process_repo has made so far
\*   raisedAt    the call of the try block that raised
\*   session     the session argument process_repo was given (0: no task)
NoAnswer == Answer(0, {})

\* Line 78: session = request.scope["db"], the session of request r.
RequestSession(r) == r

IdleRun ==
    [pc |-> "idle", user |-> 0, assignment |-> NoAssignment,
     answer |-> NoAnswer, collab |-> CollabStart, trace |-> <<>>,
     response |-> 0, error |-> NoValue, repository |-> 0,
     bg |-> "none", bgTrace |-> <<>>, raisedAt |-> NoValue,
     session |-> 0]

\* The outcomes of session.commit().
CommitOutcomes == {"ok", "raises"}

\* The handler made `call`, the provider answered, and the handler goes on.
Advance(r, call, answer, pc) ==
    run' = [run EXCEPT ![r].pc = pc, ![r].answer = answer,
                       ![r].trace = Append(@, call)]

\* The handler made `call` and ends in raise HTTPException(status, ...), or in
\* an exception it does not catch (the server answers 500): no background
\* task is scheduled.
Abort(r, call, answer, status, error) ==
    run' = [run EXCEPT ![r].pc = "done", ![r].answer = answer,
                       ![r].response = status, ![r].error = error,
                       ![r].collab = CollabStart,
                       ![r].trace = Append(@, call)]

\* Lines 78-92: the request arrives for a user and a path id; the assignment
\* lookup in the table `assignments`, then the OAuth code flow.
BeginFrom(r, assignments) ==
    /\ run[r].pc = "idle"
    /\ \A q \in Runs : q < r => run[q].pc # "idle"
    /\ \E user \in Users, id \in RequestedIds(assignments),
          oauth \in {"ok", "OAuthException", "KeyError"} :
          LET assignment == AssignmentIn(assignments, id) IN
          IF assignment = NoAssignment
          THEN run' = [run EXCEPT ![r].pc = "done", ![r].user = user,
                                  ![r].response = 404,
                                  ![r].error = "not_found"]
          ELSE IF oauth # "ok"
          THEN run' = [run EXCEPT ![r].pc = "done", ![r].user = user,
                                  ![r].assignment = assignment,
                                  ![r].response = 403, ![r].error = "oauth"]
          ELSE run' = [run EXCEPT ![r].pc = "get_user_login",
                                  ![r].user = user,
                                  ![r].assignment = assignment]
    /\ UNCHANGED <<rows, nextId, repos, teamGrants, collaborators, pushed,
                   protected, closedPRs, sheet, collabVars, cloneVars,
                   webhookVars>>

Begin(r) == BeginFrom(r, AssignmentTable)

\* Line 95
GetUserLogin(r) ==
    /\ run[r].pc = "get_user_login"
    /\ \E response \in SimpleResponses :
          IF SimpleCall(response) = "ok"
          THEN Advance(r, "get_user_login", response, "create_repository")
          ELSE Abort(r, "get_user_login", response, 500, "github")
    /\ UNCHANGED <<rows, nextId, repos, teamGrants, collaborators, pushed,
                   protected, closedPRs, sheet, collabVars, cloneVars,
                   webhookVars>>

\* Lines 99-106: RepoExistsError is swallowed, another error leaves the try.
CreateRepository(r) ==
    /\ run[r].pc = "create_repository"
    /\ LET name == RepoName(run[r].assignment, run[r].user) IN
       \E response \in CreateResponses(name) :
          LET result == create_repository(response) IN
          IF result = "HTTPStatusError"
          THEN /\ Abort(r, "create_repository", response, 500, "github")
               /\ UNCHANGED repos
          ELSE /\ Advance(r, "create_repository", response, "add_team")
               /\ repos' = IF response.status = 201
                           THEN repos \cup {name} ELSE repos
    /\ UNCHANGED <<rows, nextId, teamGrants, collaborators, pushed,
                   protected, closedPRs, sheet, collabVars, cloneVars,
                   webhookVars>>

\* Lines 108-113
AddTeam(r) ==
    /\ run[r].pc = "add_team"
    /\ LET name == RepoName(run[r].assignment, run[r].user) IN
       \E response \in SimpleResponses :
          IF SimpleCall(response) = "ok"
          THEN /\ Advance(r, "add_team", response, "add_collaborator")
               /\ teamGrants' = teamGrants \cup {name}
          ELSE /\ Abort(r, "add_team", response, 500, "github")
               /\ UNCHANGED teamGrants
    /\ UNCHANGED <<rows, nextId, repos, collaborators, pushed,
                   protected, closedPRs, sheet, collabVars, cloneVars,
                   webhookVars>>

\* Lines 115-128: one request of add_collaborator; the call goes on while the
\* answer is not-found and the retries last, and its locals end with it.
AddCollaborator(r) ==
    /\ run[r].pc = "add_collaborator"
    /\ LET name == RepoName(run[r].assignment, run[r].user)
           calls == IF run[r].collab.requests = 0
                    THEN Append(run[r].trace, "add_collaborator")
                    ELSE run[r].trace
           ended(pc, status, error) ==
               [run EXCEPT ![r].pc = pc, ![r].response = status,
                           ![r].error = error, ![r].collab = CollabStart,
                           ![r].trace = calls]
       IN
       \E response \in CollabAnswers :
          LET st == CollabStep(run[r].collab, response) IN
          /\ run' =
               [(IF st.pc = "request"
                 THEN [run EXCEPT ![r].collab = st, ![r].trace = calls]
                 ELSE IF st.result = "AccountRestrictedError"
                 THEN ended("done", 403, "restricted")
                 ELSE IF st.result = "HTTPStatusError"
                 THEN ended("done", 500, "github")
                 ELSE IF st.result = "invitation"
                 THEN ended("accept_invitation", 0, NoValue)
                 ELSE ended("upsert", 0, NoValue))
                EXCEPT ![r].answer = response]
          /\ collaborators' =
               IF st.result = "no_invitation"
               THEN collaborators \cup {<<name, LoginOf(run[r].user)>>}
               ELSE collaborators
    /\ UNCHANGED <<rows, nextId, repos, teamGrants, pushed,
                   protected, closedPRs, sheet, collabVars, cloneVars,
                   webhookVars>>

\* Lines 128-129
AcceptInvitation(r) ==
    /\ run[r].pc = "accept_invitation"
    /\ LET name == RepoName(run[r].assignment, run[r].user) IN
       \E response \in SimpleResponses :
          IF SimpleCall(response) = "ok"
          THEN /\ Advance(r, "accept_invitation", response, "upsert")
               /\ collaborators' =
                    collaborators \cup {<<name, LoginOf(run[r].user)>>}
          ELSE /\ Abort(r, "accept_invitation", response, 500, "github")
               /\ UNCHANGED collaborators
    /\ UNCHANGED <<rows, nextId, repos, teamGrants, pushed,
                   protected, closedPRs, sheet, collabVars, cloneVars,
                   webhookVars>>

\* Lines 131-152: the upsert, its commit, and the select (.one()) of the row
\* the background task will hold.
UpsertRepository(r) ==
    /\ run[r].pc = "upsert"
    /\ \E commit \in CommitOutcomes :
          IF commit = "ok"
          THEN LET user_id == run[r].user
                   assignment_id == run[r].assignment.id
                   table == Upsert(rows, nextId, user_id, assignment_id,
                                   RepoName(run[r].assignment, user_id))
                   selected == RowsOf(table, user_id, assignment_id)
               IN
               /\ rows' = table
               /\ nextId' = IF Cardinality(table) > Cardinality(rows)
                            THEN nextId + 1 ELSE nextId
               /\ IF Cardinality(selected) = 1
                  THEN run' = [run EXCEPT
                          ![r].pc = "respond",
                          ![r].repository =
                              (CHOOSE row \in selected : TRUE).id,
                          ![r].trace = Append(@, "upsert")]
                  ELSE Abort(r, "upsert", run[r].answer, 500, "unhandled")
          ELSE /\ Abort(r, "upsert", run[r].answer, 500, "unhandled")
               /\ UNCHANGED <<rows, nextId>>
    /\ UNCHANGED <<repos, teamGrants, collaborators, pushed,
                   protected, closedPRs, sheet, collabVars, cloneVars,
                   webhookVars>>

RespondStartsWithClone(r) ==
    /\ run[r].pc = "respond"
    /\ run' = [run EXCEPT ![r].pc = "clone_repo", ![r].response = 303,
                          ![r].answer = NoAnswer, ![r].trace = <<>>,
                          ![r].bg = "running",
                          ![r].session = RequestSession(r)]
    /\ UNCHANGED <<rows, nextId, repos, teamGrants, collaborators, pushed,
                   protected, closedPRs, sheet, collabVars, cloneVars,
                   webhookVars>>

\* Lines 154-158: the redirect is sent and the handler's frame ends; the
\* background task process_repo(session, repository) runs after it.
Respond(r) ==
    /\ run[r].pc = "respond"
    /\ run' = [run EXCEPT ![r].pc = "add_repo_link", ![r].response = 303,
                          ![r].answer = NoAnswer, ![r].trace = <<>>,
                          ![r].bg = "running",
                          ![r].session = RequestSession(r)]
    /\ UNCHANGED <<rows, nextId, repos, teamGrants, collaborators, pushed,
                   protected, closedPRs, sheet, collabVars, cloneVars,
                   webhookVars>>

\* The Repository object process_repo was given: the row of its primary key.
Held(r) ==
    Repository(run[r].repository, run[r].user, run[r].assignment.id,
               RepoName(run[r].assignment, run[r].user), IN_PROGRESS)

\* process_repo made `call` and goes on.
Continue(r, call, pc) ==
    run' = [run EXCEPT ![r].pc = pc, ![r].bgTrace = Append(@, call)]

\* A call of the try block of process_repo raised: control is in `except`.
Caught(r, call) ==
    run' = [run EXCEPT ![r].pc = "commit_failed", ![r].raisedAt = call,
                       ![r].bgTrace = Append(@, call)]

\* Line 64: gspread.add_repo_link(repository)
AddRepoLink(r) ==
    /\ run[r].pc = "add_repo_link"
    /\ \E api \in {"ok", "raises"} :
          IF api = "ok"
          THEN /\ Continue(r, "add_repo_link", "clone_repo")
               /\ sheet' = add_repo_link(sheet, Held(r), run[r].assignment,
                                         0, "Repo")
          ELSE /\ Caught(r, "add_repo_link")
               /\ UNCHANGED sheet
    /\ UNCHANGED <<rows, nextId, repos, teamGrants, collaborators, pushed,
                   protected, closedPRs, collabVars, cloneVars,
                   webhookVars>>

\* Line 65: github.clone_repo(owner, assignment.repo, repository.repo_name),
\* for the ways its three git subprocesses end. When clone_repo never ends,
\* process_repo stays in this await.
CloneRepo(r) ==
    /\ run[r].pc = "clone_repo"
    /\ \E end \in {LET result == clone_repo(exits) IN
                   IF ~result.ends THEN "hangs"
                   ELSE IF result.raised # NoValue THEN "raises"
                   ELSE "returns" : exits \in GitExits} :
          CASE end = "returns" ->
                  /\ Continue(r, "clone_repo", "protect_branch")
                  /\ pushed' = pushed \cup {Held(r).repo_name}
            [] end = "raises" ->
                  /\ Caught(r, "clone_repo")
                  /\ UNCHANGED pushed
            [] end = "hangs" ->
                  /\ Continue(r, "clone_repo", "hung")
                  /\ UNCHANGED pushed
    /\ UNCHANGED <<rows, nextId, repos, teamGrants, collaborators,
                   protected, closedPRs, sheet, collabVars, cloneVars,
                   webhookVars>>

\* Line 67: github.protect_branch(owner, repo_name, "master")
ProtectBranch(r) ==
    /\ run[r].pc = "protect_branch"
    /\ \E response \in SimpleResponses :
          IF SimpleCall(response) = "ok"
          THEN /\ Continue(r, "protect_branch", "commit_finished")
               /\ protected' = protected \cup {<<Held(r).repo_name, "master">>}
          ELSE /\ Caught(r, "protect_branch")
               /\ UNCHANGED protected
    /\ UNCHANGED <<rows, nextId, repos, teamGrants, collaborators, pushed,
                   closedPRs, sheet, collabVars, cloneVars,
                   webhookVars>>

\* Lines 69-70: repository.status = FINISHED; session.commit()
CommitFinished(r) ==
    /\ run[r].pc = "commit_finished"
    /\ \E commit \in CommitOutcomes :
          IF commit = "ok"
          THEN /\ rows' = SetStatus(rows, run[r].repository, FINISHED)
               /\ run' = [run EXCEPT ![r].pc = "done", ![r].bg = "finished",
                             ![r].bgTrace = Append(@, "commit_finished")]
          ELSE /\ Caught(r, "commit_finished")
               /\ UNCHANGED rows
    /\ UNCHANGED <<nextId, repos, teamGrants, collaborators, pushed,
                   protected, closedPRs, sheet, collabVars, cloneVars,
                   webhookVars>>

\* Lines 71-74: the bare except: repository.status = FAILED; session.commit().
\* A commit that raises here leaves process_repo as an exception.
CommitFailed(r) ==
    /\ run[r].pc = "commit_failed"
    /\ \E commit \in CommitOutcomes :
          IF commit = "ok"
          THEN /\ rows' = SetStatus(rows, run[r].repository, FAILED)
               /\ run' = [run EXCEPT ![r].pc = "done", ![r].bg = "failed",
                             ![r].bgTrace = Append(@, "commit_failed")]
          ELSE /\ run' = [run EXCEPT ![r].pc = "done", ![r].bg = "raised",
                             ![r].bgTrace = Append(@, "commit_failed")]
               /\ UNCHANGED rows
    /\ UNCHANGED <<nextId, repos, teamGrants, collaborators, pushed,
                   protected, closedPRs, sheet, collabVars, cloneVars,
                   webhookVars>>

(***************************************************************************)
(* router.py: github_webhook and its processors                            *)
(***************************************************************************)
\* A review comment: JSON null, or a string as a sequence of characters.
NullComment == [null |-> TRUE, text |-> <<>>]
Comment(text) == [null |-> FALSE, text |-> text]

\* int(x) of Python for a comment: TypeError for None; for a string the
\* surrounding whitespace is dropped, then an optional sign and decimal
\* digits are read, and anything else is a ValueError.
DigitValue ==
    [c \in {"0", "1", "2", "3", "4", "5", "6", "7", "8", "9"} |->
        CASE c = "0" -> 0 [] c = "1" -> 1 [] c = "2" -> 2 [] c = "3" -> 3
          [] c = "4" -> 4 [] c = "5" -> 5 [] c = "6" -> 6 [] c = "7" -> 7
          [] c = "8" -> 8 [] c = "9" -> 9]

RECURSIVE StripLeft(_)
StripLeft(text) ==
    IF text # <<>> /\ Head(text) = " " THEN StripLeft(Tail(text)) ELSE text

RECURSIVE StripRight(_)
StripRight(text) ==
    IF text # <<>> /\ text[Len(text)] = " "
    THEN StripRight(SubSeq(text, 1, Len(text) - 1)) ELSE text

RECURSIVE Decimal(_)
Decimal(digits) ==
    IF digits = <<>> THEN 0
    ELSE 10 * Decimal(SubSeq(digits, 1, Len(digits) - 1))
         + DigitValue[digits[Len(digits)]]

int(comment) ==
    IF comment.null THEN [raised |-> "TypeError", value |-> 0]
    ELSE LET stripped == StripRight(StripLeft(comment.text))
             signed == stripped # <<>> /\ Head(stripped) \in {"+", "-"}
             digits == IF signed THEN Tail(stripped) ELSE stripped
         IN
         IF digits = <<>> \/ \E i \in 1..Len(digits) : digits[i] \notin DOMAIN DigitValue
         THEN [raised |-> "ValueError", value |-> 0]
         ELSE [raised |-> NoValue,
               value |-> IF signed /\ Head(stripped) = "-"
                         THEN 0 - Decimal(digits) ELSE Decimal(digits)]

\* The parsed body of a webhook. `keys` are the top-level keys it has (the
\* objects under them are complete); `syntax` tells whether the body is JSON.
Payload(keys, owner, name, state, comment, action, wf_event, conclusion, pull_requests) ==
    [syntax |-> "json", keys |-> keys, owner |-> owner, name |-> name,
     state |-> state, reviewer |-> "reviewer", comment |-> comment,
     pr_number |-> 42, pr_branch |-> "solution",
     action |-> action, wf_event |-> wf_event, conclusion |-> conclusion,
     pull_requests |-> pull_requests]

\* What github_webhook answers and does: the response, the exception that
\* left it (answered 500 by the server), the calls it made on the request, the
\* table, the provider and the sheet, the bonus it passed to add_score, and the
\* sheet and the provider's pull requests and branches afterwards.
Reply(status, text, calls, bonus, cells, closed, prot) ==
    [status |-> status, text |-> text, raised |-> NoValue, calls |-> calls,
     bonus |-> bonus, sheet |-> cells, closedPRs |-> closed,
     protected |-> prot]

Raise(exception, calls, bonus, cells, closed, prot) ==
    [status |-> 500, text |-> "Internal Server Error", raised |-> exception,
     calls |-> calls, bonus |-> bonus, sheet |-> cells, closedPRs |-> closed,
     protected |-> prot]

\* getattr on a mapped object: AttributeError for a name the class lacks.
HasAttr(object, attribute) == attribute \in DOMAIN object

\* The answers of the outside world to one delivery: the membership lookup,
\* the spreadsheet API, close_pr and protect_branch.
Envs ==
    [team : TeamAnswers, sheet_api : {"ok", "raises"},
     close : SimpleResponses, protect : SimpleResponses]

\* github_process_review(repository, payload), lines 186-214
github_process_review(repository, assignment, payload, env, calls, cells, closed, prot) ==
    IF ~({"review", "pull_request"} \subseteq payload.keys)
    THEN Reply(400, "Invalid payload", calls, 0, cells, closed, prot)
    ELSE
    LET member == user_in_team(env.team)
        asked == Append(calls, "user_in_team")
    IN
    IF member.raised # NoValue
    THEN Raise(member.raised, asked, 0, cells, closed, prot)
    ELSE IF ~member.value
    THEN Reply(200, "Unknown reviewer", asked, 0, cells, closed, prot)
    ELSE IF payload.state # "approved"
    THEN Reply(200, "No approval", asked, 0, cells, closed, prot)
    ELSE
    LET parsed == int(payload.comment)
        bonus == IF parsed.raised = "ValueError" THEN 0 ELSE parsed.value
        scoring == Append(asked, "add_score")
        scored == add_score(cells, repository, assignment, bonus)
        closing == Append(scoring, "close_pr")
        closedNow == closed \cup {<<repository.repo_name, payload.pr_number>>}
        protecting == Append(closing, "protect_branch")
    IN
    IF parsed.raised = "TypeError"
    THEN Raise("TypeError", asked, 0, cells, closed, prot)
    ELSE IF env.sheet_api = "raises"
    THEN Raise("APIError", scoring, bonus, cells, closed, prot)
    ELSE IF ~HasAttr(assignment, "lock_after_accept")
    THEN Raise("AttributeError", scoring, bonus, scored, closed, prot)
    ELSE IF ~assignment.lock_after_accept
    THEN Reply(200, "OK", scoring, bonus, scored, closed, prot)
    ELSE IF SimpleCall(env.close) # "ok"
    THEN Raise("HTTPStatusError", closing, bonus, scored, closed, prot)
    ELSE IF SimpleCall(env.protect) # "ok"
    THEN Raise("HTTPStatusError", protecting, bonus, scored, closedNow, prot)
    ELSE Reply(200, "OK", protecting, bonus, scored, closedNow,
               prot \cup {<<repository.repo_name, payload.pr_branch>>})

\* github_process_workflow(repository, payload), lines 217-235
github_process_workflow(repository, assignment, payload, env, calls, cells, closed, prot) ==
    IF \/ ~({"action", "workflow_run"} \subseteq payload.keys)
       \/ payload.pull_requests = <<>>
    THEN Reply(400, "Invalid payload", calls, 0, cells, closed, prot)
    ELSE IF payload.action # "completed" \/ payload.wf_event # "pull_request"
    THEN Reply(200, "Run not completed", calls, 0, cells, closed, prot)
    ELSE
    LET pr_number == payload.pull_requests[1]
        label == <<"#", pr_number,
                   IF payload.conclusion = "success" THEN "passed" ELSE "failed">>
        linking == Append(calls, "add_repo_link")
    IN
    IF env.sheet_api = "raises"
    THEN Raise("APIError", linking, 0, cells, closed, prot)
    ELSE Reply(200, "OK", linking, 0,
               add_repo_link(cells, repository, assignment, pr_number, label),
               closed, prot)

\* github_webhook(request), lines 238-273
github_webhook(request, assignments, table, env, cells, closed, prot) ==
    LET verified == verify_signature(request.body, request.signature)
        payload == request.body
        found == {row \in table :
                    /\ row.repo_name = payload.name
                    /\ AssignmentIn(assignments, row.assignment_id).owner
                          = payload.owner}
        repository == CHOOSE row \in found : TRUE
        assignment == AssignmentIn(assignments, repository.assignment_id)
    IN
    IF verified.raised # NoValue
    THEN Raise(verified.raised, <<>>, 0, cells, closed, prot)
    ELSE IF ~verified.value
    THEN Reply(403, "Bad signature", <<>>, 0, cells, closed, prot)
    ELSE IF payload.syntax # "json"
    THEN Raise("JSONDecodeError", <<"json">>, 0, cells, closed, prot)
    ELSE IF "repository" \notin payload.keys
    THEN Reply(400, "Invalid payload", <<"json">>, 0, cells, closed, prot)
    ELSE IF Cardinality(found) > 1
    THEN Raise("MultipleResultsFound", <<"json", "select">>, 0,
               cells, closed, prot)
    ELSE IF found = {}
    THEN Reply(200, "Unknown repository", <<"json", "select">>, 0,
               cells, closed, prot)
    ELSE IF request.event = "pull_request_review"
    THEN github_process_review(repository, assignment, payload, env,
                               <<"json", "select">>, cells, closed, prot)
    ELSE IF request.event = "workflow_run"
    THEN github_process_workflow(repository, assignment, payload, env,
                                 <<"json", "select">>, cells, closed, prot)
    ELSE Reply(200, "Unknown event", <<"json", "select">>, 0,
               cells, closed, prot)

\* A request to /github/webhook: the raw body (known by what it parses to),
\* the X-Hub-Signature-256 header and the X-GitHub-Event header.
Delivery(body, signature, event) ==
    [body |-> body, signature |-> signature, event |-> event]

NoPayload ==
    Payload({}, NoValue, <<>>, NoValue, NullComment, NoValue, NoValue,
            NoValue, <<>>)
NoDelivery == Delivery(NoPayload, NoHeader, NoValue)
NoOutcome ==
    [status |-> 0, text |-> NoValue, raised |-> NoValue, calls |-> <<>>,
     bonus |-> 0, team |-> Membership(0, NoValue)]
NoReplay ==
    [handled |-> 0, sheet |-> EmptySheet, closedPRs |-> {}, protected |-> {}]

(***************************************************************************)
(* Spec: requests of issue_assignment and their background tasks           *)
(***************************************************************************)
Init ==
    /\ rows = {}
    /\ nextId = 1
    /\ run = [r \in Runs |-> IdleRun]
    /\ repos = {}
    /\ teamGrants = {}
    /\ collaborators = {}
    /\ pushed = {}
    /\ protected = {}
    /\ closedPRs = {}
    /\ sheet = EmptySheet
    /\ backend = <<>>
    /\ collab = CollabStart
    /\ mirror = NoMirror
    /\ delivery = NoDelivery
    /\ outcome = NoOutcome
    /\ replay = NoReplay

Next ==
    \E r \in Runs :
        \/ Begin(r)
        \/ GetUserLogin(r)
        \/ CreateRepository(r)
        \/ AddTeam(r)
        \/ AddCollaborator(r)
        \/ AcceptInvitation(r)
        \/ UpsertRepository(r)
        \/ Respond(r)
        \/ AddRepoLink(r)
        \/ CloneRepo(r)
        \/ ProtectBranch(r)
        \/ CommitFinished(r)
        \/ CommitFailed(r)

Spec == Init /\ [][Next]_vars

\* The steps of a request that has arrived and of its background task. The
\* event loop runs every coroutine that can go on, so each is taken in the
\* end; the arrival of a request is not forced.
Proceed(r) ==
    \/ GetUserLogin(r)
    \/ CreateRepository(r)
    \/ AddTeam(r)
    \/ AddCollaborator(r)
    \/ AcceptInvitation(r)
    \/ UpsertRepository(r)
    \/ Respond(r)
    \/ AddRepoLink(r)
    \/ CloneRepo(r)
    \/ ProtectBranch(r)
    \/ CommitFinished(r)
    \/ CommitFailed(r)

FairSpec == Spec /\ \A r \in Runs : WF_vars(Proceed(r))

(***************************************************************************)
(* Properties of Spec                                                      *)
(***************************************************************************)
Last(seq) == seq[Len(seq)]
Calls(seq) == {seq[i] : i \in 1..Len(seq)}
PairOf(r) == <<run[r].user, run[r].assignment.id>>
NameOf(r) == RepoName(run[r].assignment, run[r].user)

\* The step is the successful commit of step 7 of run r.
UpsertCommitted(r) == run[r].pc = "upsert" /\ run'[r].pc = "respond"

\* C1: the table never holds two rows for one (user_id, assignment_id), and a
\* step-7 commit for a pair whose row is FINISHED or FAILED leaves exactly one
\* row for the pair, IN_PROGRESS and with the repo_name it had.
OneRowPerPair ==
    \A x \in rows, y \in rows :
        (x.user_id = y.user_id /\ x.assignment_id = y.assignment_id) => x = y

ReissueResetsTheRow ==
    \A r \in Runs :
        UpsertCommitted(r) =>
            LET before == RowsOf(rows, run[r].user, run[r].assignment.id)
                after == RowsOf(rows', run[r].user, run[r].assignment.id)
            IN
            /\ Cardinality(after) = 1
            /\ \A old \in before :
                  old.status \in {FINISHED, FAILED} =>
                      after = {[old EXCEPT !.status = IN_PROGRESS]}

C1_OneRowPerPair == []OneRowPerPair /\ [][ReissueResetsTheRow]_vars

\* C1 witness: a run has just committed step 7 for a pair whose row an
\* earlier run had brought to FINISHED or FAILED; the row is IN_PROGRESS.
C1_Witness ==
    \E r \in Runs, q \in Runs :
        /\ r # q
        /\ run[r].pc = "respond"
        /\ run[q].bg \in {"finished", "failed"}
        /\ run[q].repository = run[r].repository
        /\ \E x \in rows : x.id = run[r].repository /\ x.status = IN_PROGRESS

\* The step changes the status of a row from `old` to `new`.
StatusStep(old, new) ==
    \E x \in rows, y \in rows' :
        x.id = y.id /\ x.status = old /\ y.status = new

ByProcessRepo ==
    \E r \in Runs : run[r].pc \in {"commit_finished", "commit_failed"}
                    /\ run'[r].pc = "done"

ByUpsert == \E r \in Runs : UpsertCommitted(r)

AllowedStatusStep ==
    \A old \in RepoStatus, new \in RepoStatus :
        (old # new /\ StatusStep(old, new)) =>
            \/ old = IN_PROGRESS /\ new \in {FINISHED, FAILED} /\ ByProcessRepo
            \/ old \in {FINISHED, FAILED} /\ new = IN_PROGRESS /\ ByUpsert

\* C2: the status of a row changes only IN_PROGRESS -> FINISHED or FAILED (by
\* process_repo) or FINISHED/FAILED -> IN_PROGRESS (by the upsert); never
\* directly between FINISHED and FAILED.
C2_StatusTransitions == [][AllowedStatusStep]_vars

\* The calls of the try block of process_repo, in order.
TryBlock == <<"add_repo_link", "clone_repo", "protect_branch", "commit_finished">>

\* C3: process_repo commits FINISHED exactly when the four calls of its try
\* block completed; when one raises, the later ones are skipped, FAILED is
\* committed, and no exception leaves process_repo.
C3_ProcessRepoOutcome ==
    \A r \in Runs :
        /\ run[r].bg = "finished" <=>
              (run[r].pc = "done" /\ run[r].bgTrace = TryBlock
               /\ run[r].raisedAt = NoValue)
        /\ (run[r].raisedAt # NoValue /\ run[r].pc = "done") =>
              /\ run[r].bg = "failed"
              /\ \E n \in 1..Len(TryBlock) :
                    /\ TryBlock[n] = run[r].raisedAt
                    /\ run[r].bgTrace =
                          Append(SubSeq(TryBlock, 1, n), "commit_failed")
        /\ run[r].bg # "raised"

\* C4: the 422 "User could not be added" answer to add_collaborator ends the
\* request with 403 as an account restriction, never as a generic error:
\* accept_invitation and the upsert are not reached, nothing is scheduled, the
\* table is as it was, and the repository and the team grant stay.
RestrictedAnswer == Answer(422, {RESTRICTED_MESSAGE})

RestrictedAborts ==
    \A r \in Runs :
        /\ (run[r].answer = RestrictedAnswer) <=> (run[r].error = "restricted")
        /\ run[r].error = "restricted" =>
              /\ run[r].pc = "done"
              /\ run[r].response = 403
              /\ Last(run[r].trace) = "add_collaborator"
              /\ Calls(run[r].trace) \cap {"accept_invitation", "upsert"} = {}
              /\ run[r].bg = "none" /\ run[r].bgTrace = <<>>
              /\ run[r].repository = 0
              /\ NameOf(r) \in repos
              /\ NameOf(r) \in teamGrants

RestrictedAbortWritesNothing ==
    \A r \in Runs :
        (run[r].error # "restricted" /\ run'[r].error = "restricted") =>
            /\ rows' = rows
            /\ repos' = repos /\ teamGrants' = teamGrants
            /\ collaborators' = collaborators

C4_AccountRestricted ==
    []RestrictedAborts /\ [][RestrictedAbortWritesNothing]_vars

\* C4 witness: a request was refused as restricted while the pair has a
\* FINISHED row from an earlier run.
C4_Witness ==
    \E r \in Runs :
        /\ run[r].error = "restricted"
        /\ \E x \in RowsOf(rows, run[r].user, run[r].assignment.id) :
              x.status = FINISHED

\* C5: after create_repository the request goes on to add_team in the same
\* state whether the repository was created or the name already existed; any
\* other failing response ends it with 500 before add_team, with no row
\* written and nothing scheduled.
C5_CreateOrReuse ==
    \A r \in Runs :
        (run[r].trace # <<>> /\ Last(run[r].trace) = "create_repository") =>
            IF run[r].answer \in {Answer(201, {}), Answer(422, {NAME_EXISTS_MESSAGE})}
            THEN /\ [run[r] EXCEPT !.answer = NoAnswer] =
                        [IdleRun EXCEPT
                            !.pc = "add_team", !.user = run[r].user,
                            !.assignment = run[r].assignment,
                            !.trace = <<"get_user_login", "create_repository">>]
                 /\ NameOf(r) \in repos
            ELSE /\ RaisesForStatus(run[r].answer.status)
                 /\ run[r].pc = "done"
                 /\ run[r].response = 500
                 /\ run[r].repository = 0
                 /\ run[r].bg = "none" /\ run[r].bgTrace = <<>>

\* C5 witness: a request got "name already exists" and is about to call
\* add_team.
C5_Witness ==
    \E r \in Runs :
        /\ run[r].pc = "add_team"
        /\ run[r].answer = Answer(422, {NAME_EXISTS_MESSAGE})

\* The sequence grew by one element.
Grew(before, after) ==
    Len(after) = Len(before) + 1 /\ SubSeq(after, 1, Len(before)) = before

LastOr(seq, none) == IF seq = <<>> THEN none ELSE seq[Len(seq)]

\* The calls of the handler follow each other in the order of the code;
\* accept_invitation follows an add_collaborator that returned an invitation
\* (201), the upsert one that returned none (204).
HandlerOrder(r) ==
    Grew(run[r].trace, run'[r].trace) =>
        LET prev == LastOr(run[r].trace, "start")
            call == Last(run'[r].trace)
        IN
        \/ <<prev, call>> \in
              {<<"start", "get_user_login">>,
               <<"get_user_login", "create_repository">>,
               <<"create_repository", "add_team">>,
               <<"add_team", "add_collaborator">>,
               <<"accept_invitation", "upsert">>}
        \/ /\ <<prev, call>> = <<"add_collaborator", "accept_invitation">>
           /\ run[r].answer.status = 201
        \/ /\ <<prev, call>> = <<"add_collaborator", "upsert">>
           /\ run[r].answer.status = 204

\* The response follows the commit of the upsert, with no step of the
\* background task before it.
ResponseOrder(r) ==
    (run[r].response = 0 /\ run'[r].response = 303) =>
        /\ Last(run[r].trace) = "upsert"
        /\ \E x \in rows : x.id = run[r].repository
        /\ run[r].bgTrace = <<>>

\* The steps of process_repo follow the response, in the order of the try
\* block; after a raise only the FAILED commit follows.
TaskOrder(r) ==
    Grew(run[r].bgTrace, run'[r].bgTrace) =>
        LET prev == LastOr(run[r].bgTrace, "start")
            call == Last(run'[r].bgTrace)
        IN
        /\ run[r].response = 303
        /\ run[r].bg = "running"
        /\ IF run[r].raisedAt # NoValue
           THEN call = "commit_failed" /\ prev = run[r].raisedAt
           ELSE <<prev, call>> \in
                   {<<"start", "add_repo_link">>,
                    <<"add_repo_link", "clone_repo">>,
                    <<"clone_repo", "protect_branch">>,
                    <<"protect_branch", "commit_finished">>}

TaskAfterCommit ==
    \A r \in Runs :
        run[r].bgTrace # <<>> =>
            /\ run[r].response = 303
            /\ \E x \in rows : x.id = run[r].repository

\* C18: within a run the calls are made in the order get_user_login,
\* create_repository, add_team, add_collaborator, accept_invitation (only
\* after an invitation), upsert and commit, response, and then the background
\* task: add_repo_link, clone_repo, protect_branch, status commit; no step of
\* the task precedes the commit of the upsert of its run.
C18_StepOrder ==
    /\ []TaskAfterCommit
    /\ [][\A r \in Runs : HandlerOrder(r) /\ ResponseOrder(r) /\ TaskOrder(r)]_vars

\* C18 witness: a run went through the handler and all of its task.
C18_Witness ==
    \E r \in Runs :
        /\ run[r].bg = "finished"
        /\ run[r].bgTrace = TryBlock
        /\ <<NameOf(r), LoginOf(run[r].user)>> \in collaborators

\* C19: every run whose upsert was committed is followed, in the end, by its
\* background task committing FINISHED or FAILED, and no row stays
\* IN_PROGRESS forever, whatever the git subprocesses do.
C19_TaskEnds ==
    /\ \A r \in Runs :
          (run[r].repository # 0) ~> (run[r].bg \in {"finished", "failed"})
    /\ \A id \in 1..MaxRuns :
          (\E x \in rows : x.id = id /\ x.status = IN_PROGRESS)
              ~> (\E x \in rows : x.id = id /\ x.status # IN_PROGRESS)

\* The last answer of the provider is one the handler does not go on after.
FailingAnswer(r) ==
    /\ RaisesForStatus(run[r].answer.status)
    /\ run[r].answer # Answer(422, {NAME_EXISTS_MESSAGE})
    /\ ~(run[r].pc = "add_collaborator" /\ run[r].answer.status = 404)

SyncFailures == {"not_found", "oauth", "github", "restricted"}

SyncFailureAnswered ==
    \A r \in Runs :
        /\ FailingAnswer(r) =>
              run[r].pc = "done" /\ run[r].error \in {"github", "restricted"}
        /\ run[r].error = "not_found" =>
              /\ run[r].response = 404
              /\ run[r].trace = <<>>
              /\ run[r].assignment = NoAssignment
        /\ run[r].error = "oauth" =>
              run[r].response = 403 /\ run[r].trace = <<>>
        /\ run[r].error = "restricted" => run[r].response = 403
        /\ run[r].error = "github" =>
              run[r].response = 500 /\ RaisesForStatus(run[r].answer.status)
        /\ run[r].error \in SyncFailures =>
              /\ run[r].pc = "done"
              /\ run[r].repository = 0
              /\ run[r].bg = "none" /\ run[r].bgTrace = <<>>
              /\ "upsert" \notin Calls(run[r].trace)

SyncFailureWritesNothing ==
    \A r \in Runs :
        (run[r].error = NoValue /\ run'[r].error \in SyncFailures) =>
            /\ rows' = rows /\ nextId' = nextId
            /\ run'[r].error = "not_found" =>
                  UNCHANGED <<repos, teamGrants, collaborators>>

\* C20: a failure before the upsert (unknown assignment, OAuth, or an error of
\* get_user_login, create_repository other than "already exists", add_team,
\* add_collaborator or accept_invitation) is answered 404, 403 or 500, leaves
\* the table as it was and schedules no background task; an unknown
\* assignment is refused before any call to the provider.
C20_SyncFailures ==
    []SyncFailureAnswered /\ [][SyncFailureWritesNothing]_vars

\* C20 witness: accept_invitation failed for a pair whose row an earlier run
\* left FINISHED.
C20_Witness ==
    \E r \in Runs :
        /\ run[r].error = "github"
        /\ Last(run[r].trace) = "accept_invitation"
        /\ \E x \in RowsOf(rows, run[r].user, run[r].assignment.id) :
              x.status = FINISHED

\* The background task of run r has committed a status, or tried to.
TaskCommitted(r) ==
    \E i \in DOMAIN run[r].bgTrace :
        run[r].bgTrace[i] \in {"commit_finished", "commit_failed"}

\* C21: the background task commits through a transactional context of its
\* own: the session it commits on is never the session of the request that
\* scheduled it, whose response has been sent by then.
C21_TaskOwnsItsSession ==
    \A r \in Runs :
        TaskCommitted(r) /\ run[r].response = 303 =>
            run[r].session # RequestSession(r)

\* Two runs of one (user, assignment) pair that have both committed step 7
\* hold the same row, the only row of the pair.
SamePairSameRow ==
    \A r \in Runs, q \in Runs :
        (r # q /\ PairOf(r) = PairOf(q)
             /\ run[r].repository # 0 /\ run[q].repository # 0) =>
            /\ run[r].repository = run[q].repository
            /\ Cardinality(RowsOf(rows, run[r].user, run[r].assignment.id)) = 1

\* The select after the upsert of a run finds exactly one row, whatever the
\* other runs have written: .one() does not raise.
SelectFindsOne ==
    \A r \in Runs :
        run[r].pc = "upsert" =>
            Cardinality(RowsOf(Upsert(rows, nextId, run[r].user,
                                      run[r].assignment.id, NameOf(r)),
                               run[r].user, run[r].assignment.id)) = 1

\* The step ends the background task of run r.
TaskEnds(r) ==
    run[r].pc \in {"commit_finished", "commit_failed"} /\ run'[r].pc = "done"

\* The attempt of run r succeeded: every call of its try block returned.
AttemptSucceeded(r) == run[r].raisedAt = NoValue

\* When a background task ends, the row it was given shows the outcome of
\* its attempt, whatever the other runs of the pair wrote before; and nothing
\* but a step-7 commit or the end of a task changes the table.
LastAttemptDecides ==
    /\ \A r \in Runs :
          TaskEnds(r) =>
              \E x \in rows' :
                  /\ x.id = run[r].repository
                  /\ x.status = IF AttemptSucceeded(r) THEN FINISHED ELSE FAILED
    /\ rows' # rows => ByUpsert \/ ByProcessRepo

\* C22: two runs of one (user, assignment) pair may interleave freely: the
\* select of each finds one row, both hold that one row after their commits,
\* and the status that is left when the tasks have ended is the outcome of
\* the attempt that ended last.
C22_ConcurrentReissue ==
    []SamePairSameRow /\ []SelectFindsOne /\ [][LastAttemptDecides]_vars

\* The background task of run r is running on the row with primary key id.
TaskRunningOn(r, id) == run[r].repository = id /\ run[r].bg = "running"

\* A row is FINISHED or FAILED only while no background task runs on it.
TerminalOnlyWhenQuiet ==
    \A x \in rows :
        x.status \in {FINISHED, FAILED} =>
            ~ \E r \in Runs : TaskRunningOn(r, x.id)

\* The step is a failure of the mirror or of the branch protection of run r.
MirrorOrProtectionFails(r) ==
    /\ run[r].raisedAt = NoValue
    /\ run'[r].raisedAt \in {"clone_repo", "protect_branch"}

\* Right after a mirror or a branch protection has failed, the latest one
\* attempted for that row, the row does not show FINISHED.
FinishedOnlyAfterSuccess ==
    \A r \in Runs :
        MirrorOrProtectionFails(r) =>
            \A x \in rows' : x.id = run[r].repository => x.status # FINISHED

\* C23: a row shows FINISHED or FAILED only while no background task for its
\* (user, assignment) pair is running, and FINISHED only if the latest mirror
\* and branch protection attempted for it succeeded, also when a re-issuance
\* overlaps the task of an earlier run.
C23_TerminalMeansSettled ==
    []TerminalOnlyWhenQuiet /\ [][FinishedOnlyAfterSuccess]_vars

(***************************************************************************)
(* CollabSpec: add_collaborator against a scripted backend                 *)
(***************************************************************************)
\* The backend's answer to each request it may get, fixed in advance.
Backends == [1..MaxAttempts -> CollabAnswers]

InitCollab ==
    /\ rows = {}
    /\ nextId = 1
    /\ run = [r \in Runs |-> IdleRun]
    /\ repos = {}
    /\ teamGrants = {}
    /\ collaborators = {}
    /\ pushed = {}
    /\ protected = {}
    /\ closedPRs = {}
    /\ sheet = EmptySheet
    /\ backend \in Backends
    /\ collab = CollabStart
    /\ mirror = NoMirror
    /\ delivery = NoDelivery
    /\ outcome = NoOutcome
    /\ replay = NoReplay

\* One pass of the loop of add_collaborator: the request is answered by the
\* backend, then the call ends or sleeps and retries.
CollabRequest ==
    /\ collab.pc = "request"
    /\ collab.requests < MaxAttempts
    /\ collab' = CollabStep(collab, backend[collab.requests + 1])
    /\ UNCHANGED <<provisionVars, protected, closedPRs, sheet, backend,
                   cloneVars, webhookVars>>

CollabSpec == InitCollab /\ [][CollabRequest]_vars

NotFound(n) == backend[n].status = 404
Succeeds(n) == backend[n].status \in {201, 204}
CollabEnded == collab.pc # "request"

\* C6 as claimed: not-found twice, then success: the call returns after
\* exactly 3 requests having slept 0 + 0.3 + 0.6 = 0.9 s in total.
C6_BackoffSumClaimed ==
    (NotFound(1) /\ NotFound(2) /\ Succeeds(3) /\ CollabEnded) =>
        /\ collab.pc = "returned"
        /\ collab.requests = 3
        /\ collab.slept = 0 + BackoffTenths + 2 * BackoffTenths

\* C6 amended: not-found twice, then success: the call returns after exactly
\* 3 requests having slept 0 + 0.3 = 0.3 s in total (one delay after each of
\* the two not-found answers).
C6_BackoffSum ==
    (NotFound(1) /\ NotFound(2) /\ Succeeds(3) /\ CollabEnded) =>
        /\ collab.pc = "returned"
        /\ collab.requests = 3
        /\ collab.slept = 0 + BackoffTenths

C6_Witness ==
    NotFound(1) /\ NotFound(2) /\ Succeeds(3) /\ collab.pc = "returned"

\* C7: against a backend that always answers not-found the call makes
\* exactly 4 requests and then raises the not-found error; it never returns
\* a value and never asks a fifth time.
AlwaysNotFound == \A n \in 1..MaxAttempts : NotFound(n)

C7_RetriesExhausted ==
    AlwaysNotFound =>
        /\ collab.requests <= MaxRetries + 1
        /\ collab.pc # "returned"
        /\ collab.requests = MaxRetries + 1 =>
              collab.pc = "raised" /\ collab.result = "HTTPStatusError"
        /\ CollabEnded => collab.requests = 4

C7_Witness == AlwaysNotFound /\ collab.pc = "raised" /\ collab.requests = 4

(***************************************************************************)
(* CloneSpec: clone_repo, one git subprocess after another                 *)
(***************************************************************************)
InitClone ==
    /\ rows = {}
    /\ nextId = 1
    /\ run = [r \in Runs |-> IdleRun]
    /\ repos = {}
    /\ teamGrants = {}
    /\ collaborators = {}
    /\ pushed = {}
    /\ protected = {}
    /\ closedPRs = {}
    /\ sheet = EmptySheet
    /\ backend = <<>>
    /\ collab = CollabStart
    /\ mirror \in {MirrorStart(exits) : exits \in GitExits}
    /\ delivery = NoDelivery
    /\ outcome = NoOutcome
    /\ replay = NoReplay

MirrorUnchanged ==
    UNCHANGED <<provisionVars, protected, closedPRs, sheet, collabVars,
                webhookVars>>

\* Line 200: `with tempfile.TemporaryDirectory() as temp_dir`
MirrorEnter ==
    /\ mirror.pc = "enter"
    /\ mirror' = [mirror EXCEPT !.pc = "spawn", !.tempDir = TRUE]
    /\ MirrorUnchanged

\* Lines 201-207, 218-224, 231-237: asyncio.create_subprocess_exec("git", ...)
MirrorSpawn ==
    /\ mirror.pc = "spawn"
    /\ mirror' = [mirror EXCEPT !.pc = "wait",
                                !.started = Append(@, mirror.step)]
    /\ MirrorUnchanged

\* Lines 209-216, 226-229, 239-246: the wait for the subprocess and the test
\* of its return code. A `git remote set-url` that never ends leaves the call
\* in its await.
MirrorWait ==
    /\ mirror.pc = "wait"
    /\ LET end == mirror.exits[mirror.step] IN
       /\ end # "hang"
       /\ mirror' =
            CASE end = "timeout" -> [mirror EXCEPT !.pc = "kill"]
              [] end = "nonzero" ->
                    [mirror EXCEPT
                        !.pc = "leave",
                        !.raised =
                            CASE mirror.step = "clone" ->
                                    "CloneError: git clone failed"
                              [] mirror.step = "set_url" ->
                                    "CloneError: git remote set-url failed"
                              [] mirror.step = "push" ->
                                    "CloneError: git push failed"]
              [] end = "exit0" ->
                    IF mirror.step = "push"
                    THEN [mirror EXCEPT !.pc = "leave"]
                    ELSE [mirror EXCEPT !.pc = "spawn",
                                        !.step = StepAfter(mirror.step)]
    /\ MirrorUnchanged

\* Lines 211-213 and 241-243: except TimeoutError: process.kill(); raise
MirrorKill ==
    /\ mirror.pc = "kill"
    /\ mirror' = [mirror EXCEPT
                    !.pc = "leave",
                    !.killed = @ \cup {mirror.step},
                    !.raised = IF mirror.step = "clone"
                               THEN "CloneError: git clone timed out"
                               ELSE "CloneError: git push timed out"]
    /\ MirrorUnchanged

MirrorLeaveKeepsDirectory ==
    /\ mirror.pc = "leave"
    /\ mirror' = [mirror EXCEPT !.pc = "done"]
    /\ MirrorUnchanged

\* The end of the `with` block, by return or by exception: the temporary
\* directory is removed.
MirrorLeave ==
    /\ mirror.pc = "leave"
    /\ mirror' = [mirror EXCEPT !.pc = "done", !.tempDir = FALSE]
    /\ MirrorUnchanged

NextClone ==
    MirrorEnter \/ MirrorSpawn \/ MirrorWait \/ MirrorKill \/ MirrorLeave

CloneSpec == InitClone /\ [][NextClone]_vars

\* What the call has done so far, in the shape of the result of clone_repo.
MirrorResult ==
    [ends |-> mirror.pc = "done", raised |-> mirror.raised,
     started |-> mirror.started, killed |-> mirror.killed,
     tempDir |-> mirror.tempDir]

TimedOut(step) ==
    /\ \E i \in 1..Len(mirror.started) : mirror.started[i] = step
    /\ mirror.exits[step] = "timeout"

\* C16: when clone_repo has ended, by return, by a non-zero exit of clone,
\* set-url or push, or by a timeout of clone or push, the temporary directory
\* is gone; a clone or push that timed out was killed, CloneError was raised
\* and no later subprocess was started. The steps agree with clone_repo.
C16_CloneRepoExits ==
    /\ mirror.pc = "done" =>
          /\ ~mirror.tempDir
          /\ MirrorResult = clone_repo(mirror.exits)
          /\ \A step \in {"clone", "push"} :
                TimedOut(step) =>
                    /\ step \in mirror.killed
                    /\ mirror.raised \in {"CloneError: git clone timed out",
                                          "CloneError: git push timed out"}
                    /\ mirror.started[Len(mirror.started)] = step
          /\ mirror.raised = NoValue <=>
                /\ mirror.started = GitSteps
                /\ \A i \in 1..Len(GitSteps) :
                      mirror.exits[GitSteps[i]] = "exit0"
    /\ mirror.pc \notin {"enter", "done"} => mirror.tempDir
    /\ (mirror.pc = "wait" /\ mirror.exits[mirror.step] = "hang") =>
          MirrorResult = clone_repo(mirror.exits)

\* C16 witness: the push timed out, was killed, and the call has ended.
C16_Witness ==
    /\ mirror.pc = "done"
    /\ TimedOut("push")
    /\ mirror.killed = {"push"}

(***************************************************************************)
(* WebhookSpec: deliveries to /github/webhook                              *)
(***************************************************************************)
TheAssignment == CHOOSE a \in AssignmentTable : TRUE

\* The tables issue_assignment and process_repo leave behind: for each set of
\* users a FINISHED row for the assignment, ids in the order of issue.
TableOf(users) ==
    {Repository(Cardinality({v \in users : v <= u}), u, TheAssignment.id,
                RepoName(TheAssignment, u), FINISHED) : u \in users}

WebhookTables == {TableOf(users) : users \in SUBSET Users}

\* The repositories webhooks name: those of the users, one the table does
\* not know, and a known name under another owner.
NamedRepositories ==
    {<<TheAssignment.owner, RepoName(TheAssignment, u)>> : u \in Users}
    \cup {<<TheAssignment.owner, <<"notes", "-", 7>>>>,
          <<"someone", RepoName(TheAssignment, 1)>>}

Comments ==
    {NullComment, Comment(<<>>), Comment(<<"5">>),
     Comment(<<"-", "1", "2">>), Comment(<<"l", "g", "t", "m">>)}

ReviewPayloads ==
    {Payload({"repository", "review", "pull_request"}, repo[1], repo[2],
             state, comment, NoValue, NoValue, NoValue, <<>>) :
        repo \in NamedRepositories, state \in {"approved", "commented"},
        comment \in Comments}

\* Workflow runs: action, triggering event, conclusion (null until the run
\* completes) and the numbers of the pull requests the run belongs to.
WorkflowRuns ==
    {<<"completed", "pull_request", "success", <<42, 43>>>>,
     <<"completed", "pull_request", "failure", <<42>>>>,
     <<"completed", "pull_request", "cancelled", <<42>>>>,
     <<"completed", "pull_request", "success", <<>>>>,
     <<"requested", "pull_request", NoValue, <<42>>>>,
     <<"completed", "push", "success", <<>>>>,
     <<"requested", "push", NoValue, <<>>>>}

WorkflowPayloads ==
    {Payload({"repository", "action", "workflow_run"}, repo[1], repo[2],
             NoValue, NullComment, wf[1], wf[2], wf[3], wf[4]) :
        repo \in NamedRepositories, wf \in WorkflowRuns}

BarePayloads ==
    {NoPayload, [NoPayload EXCEPT !.syntax = "invalid"]}
    \cup {Payload({"repository"}, repo[1], repo[2], NoValue, NullComment,
                  NoValue, NoValue, NoValue, <<>>) : repo \in NamedRepositories}

Bodies == ReviewPayloads \cup WorkflowPayloads \cup BarePayloads

\* The signature headers a sender may attach to a body: none, the right one,
\* another prefix, a digest under another secret, the digest of another
\* body, and a value with a character outside ASCII after the prefix.
SignaturesFor(body) ==
    {NoHeader,
     Header(SIGNATURE_256_PREFIX \o HexDigest(GITHUB_WEBHOOK_SECRET, body)),
     Header(<<Text("sha1=")>> \o HexDigest(GITHUB_WEBHOOK_SECRET, body)),
     Header(SIGNATURE_256_PREFIX \o HexDigest("a guess", body)),
     Header(SIGNATURE_256_PREFIX
            \o HexDigest(GITHUB_WEBHOOK_SECRET, NoPayload)),
     Header(SIGNATURE_256_PREFIX \o <<NonAsciiText>>)}

Events == {"pull_request_review", "workflow_run", "push"}

InitWebhook ==
    /\ rows \in WebhookTables
    /\ nextId = Cardinality(rows) + 1
    /\ run = [r \in Runs |-> IdleRun]
    /\ repos = {row.repo_name : row \in rows}
    /\ teamGrants = {row.repo_name : row \in rows}
    /\ collaborators = {}
    /\ pushed = {}
    /\ protected = {}
    /\ closedPRs = {}
    /\ sheet = EmptySheet
    /\ backend = <<>>
    /\ collab = CollabStart
    /\ mirror = NoMirror
    /\ delivery = NoDelivery
    /\ outcome = NoOutcome
    /\ replay = NoReplay

\* A request arrives.
Receive ==
    /\ delivery = NoDelivery
    /\ \E body \in Bodies, event \in Events :
          \E signature \in SignaturesFor(body) :
              delivery' = Delivery(body, signature, event)
    /\ UNCHANGED <<provisionVars, protected, closedPRs, sheet, collabVars,
                   cloneVars, outcome, replay>>

\* What github_webhook does with the delivery when the outside world answers
\* as `env`; the membership answer is kept when the handler asked for it.
Handled(env) ==
    LET result == github_webhook(delivery, AssignmentTable, rows, env, sheet,
                                 closedPRs, protected)
        asked == \E i \in 1..Len(result.calls) :
                    result.calls[i] = "user_in_team"
    IN [result |-> result,
        team |-> IF asked THEN env.team ELSE NoOutcome.team]

\* github_webhook handles it, for the answers of the outside world.
Handle ==
    /\ delivery # NoDelivery
    /\ outcome = NoOutcome
    /\ \E handled \in {Handled(env) : env \in Envs} :
          /\ outcome' =
                [status |-> handled.result.status,
                 text |-> handled.result.text,
                 raised |-> handled.result.raised,
                 calls |-> handled.result.calls,
                 bonus |-> handled.result.bonus,
                 team |-> handled.team]
          /\ sheet' = handled.result.sheet
          /\ closedPRs' = handled.result.closedPRs
          /\ protected' = handled.result.protected
    /\ replay' =
          IF replay.handled = 0
          THEN [handled |-> 1, sheet |-> sheet, closedPRs |-> closedPRs,
                protected |-> protected]
          ELSE [replay EXCEPT !.handled = @ + 1]
    /\ UNCHANGED <<provisionVars, collabVars, cloneVars, delivery>>

\* The provider delivers the same webhook again (same body and headers)
\* after the response to the last delivery.
Redeliver ==
    /\ outcome # NoOutcome
    /\ replay.handled < MaxDeliveries
    /\ outcome' = NoOutcome
    /\ UNCHANGED <<provisionVars, protected, closedPRs, sheet, collabVars,
                   cloneVars, delivery, replay>>

\* The response is sent.
Finish ==
    /\ outcome # NoOutcome
    /\ delivery' = NoDelivery
    /\ outcome' = NoOutcome
    /\ replay' = NoReplay
    /\ UNCHANGED <<provisionVars, protected, closedPRs, sheet, collabVars,
                   cloneVars>>

NextWebhook == Receive \/ Handle \/ Redeliver \/ Finish

WebhookSpec == InitWebhook /\ [][NextWebhook]_vars

\* The delivery being handled, as the sender and the world made it.
ValidSignature ==
    delivery.signature =
        Header(SIGNATURE_256_PREFIX
               \o HexDigest(GITHUB_WEBHOOK_SECRET, delivery.body))

KnownRepository ==
    /\ delivery.body.syntax = "json"
    /\ "repository" \in delivery.body.keys
    /\ \E row \in rows :
          /\ row.repo_name = delivery.body.name
          /\ AssignmentById(row.assignment_id).owner = delivery.body.owner

Answered == outcome # NoOutcome

Made(call) == \E i \in 1..Len(outcome.calls) : outcome.calls[i] = call

\* A well-formed review of a known repository, validly signed, was handled.
ReviewHandled ==
    /\ Answered
    /\ ValidSignature
    /\ KnownRepository
    /\ delivery.event = "pull_request_review"
    /\ {"review", "pull_request"} \subseteq delivery.body.keys

ActiveMember == Membership(200, "active")
NonMembers == {Membership(404, NoValue), Membership(200, "pending")}

\* The cell of the sheet that holds the bonus of the user of the delivery.
BonusCellOf(user_id) ==
    <<get_row(user_id), get_column(TheAssignment.order, BONUS)>>

ScoreCells ==
    {c \in DOMAIN sheet :
        c[2] \in {get_column(TheAssignment.order, DATE),
                  get_column(TheAssignment.order, BONUS)}}

\* C8: a webhook whose signature does not verify (absent header, wrong prefix
\* or wrong digest) is answered 403 before the payload is parsed: no parsing,
\* no repository lookup, no hosting call and no sheet write is made for it.
C8_BadSignatureRejected ==
    (Answered /\ ~ValidSignature) =>
        /\ outcome.status = 403
        /\ outcome.raised = NoValue
        /\ outcome.calls = <<>>

\* C9: add_score is called only for a validly signed pull_request_review
\* delivery of a known repository whose reviewer is an active member of the
\* team and whose state is "approved"; a review by a non-member is answered
\* 200 "Unknown reviewer" and a non-approved review by a member 200 "No
\* approval", both without add_score, close_pr or protect_branch, and leaving
\* the sheet, the pull requests and the branches as they were.
ScoreOnlyForApprovedMemberReview ==
    /\ Made("add_score") =>
          /\ ReviewHandled
          /\ outcome.team = ActiveMember
          /\ delivery.body.state = "approved"
    /\ ReviewHandled => Made("user_in_team")
    /\ (ReviewHandled /\ outcome.team \in NonMembers) =>
          /\ outcome.status = 200 /\ outcome.text = "Unknown reviewer"
          /\ ~Made("add_score") /\ ~Made("close_pr") /\ ~Made("protect_branch")
    /\ (ReviewHandled /\ outcome.team = ActiveMember
        /\ delivery.body.state # "approved") =>
          /\ outcome.status = 200 /\ outcome.text = "No approval"
          /\ ~Made("add_score") /\ ~Made("close_pr") /\ ~Made("protect_branch")

RefusedReviewWritesNothing ==
    /\ (~Answered /\ outcome'.text \in {"Unknown reviewer", "No approval"}) =>
          /\ sheet' = sheet
          /\ closedPRs' = closedPRs
          /\ protected' = protected
    /\ (\E c \in ScoreCells' : c \notin ScoreCells \/ sheet'[c] # sheet[c]) =>
          \E i \in 1..Len(outcome'.calls) : outcome'.calls[i] = "add_score"

C9_ScoreOnlyForApprovedMemberReview ==
    []ScoreOnlyForApprovedMemberReview /\ [][RefusedReviewWritesNothing]_vars

\* C9 witness: a member's non-approved review is answered "No approval" while
\* the sheet holds the score of an earlier approved review.
C9_Witness ==
    /\ ReviewHandled
    /\ outcome.text = "No approval"
    /\ BonusCellOf(1) \in DOMAIN sheet

\* The integer a comment stands for, 0 when it is not a number.
ExpectedBonus(comment) ==
    CASE comment = Comment(<<"5">>) -> 5
      [] comment = Comment(<<"-", "1", "2">>) -> 0 - 12
      [] OTHER -> 0

\* C10: for an approved review by a member of the team the bonus passed to
\* add_score is the integer value of the comment when it is numeric and 0 for
\* any other comment (text, empty, or null); parsing the comment never ends
\* the request with an error.
C10_BonusFromComment ==
    (ReviewHandled /\ outcome.team = ActiveMember
     /\ delivery.body.state = "approved") =>
        /\ outcome.raised \notin {"TypeError", "ValueError"}
        /\ Made("add_score")
        /\ outcome.bonus = ExpectedBonus(delivery.body.comment)

\* An approved review by a member whose comment is a string and whose score
\* the spreadsheet API took.
ApprovedReviewScored ==
    /\ ReviewHandled
    /\ outcome.team = ActiveMember
    /\ delivery.body.state = "approved"
    /\ ~delivery.body.comment.null
    /\ outcome.raised # "APIError"

\* The lock-after-accept policy of an assignment.
LockAfterAccept(assignment) ==
    HasAttr(assignment, "lock_after_accept") /\ assignment.lock_after_accept

\* C11: for an approved review by a member of the team the score is recorded
\* and the answer is "OK"; when the assignment's lock-after-accept policy is
\* set, close_pr and then protect_branch follow add_score, and when it is not
\* set neither of them is called.
C11_LockAfterAccept ==
    ApprovedReviewScored =>
        /\ outcome.raised = NoValue
        /\ outcome.status = 200 /\ outcome.text = "OK"
        /\ IF LockAfterAccept(TheAssignment)
           THEN outcome.calls = <<"json", "select", "user_in_team",
                                  "add_score", "close_pr", "protect_branch">>
           ELSE outcome.calls = <<"json", "select", "user_in_team",
                                  "add_score">>

\* A workflow_run delivery of a known repository, validly signed and with the
\* keys the processor reads, was handled.
WorkflowHandled ==
    /\ Answered
    /\ ValidSignature
    /\ KnownRepository
    /\ delivery.event = "workflow_run"
    /\ {"action", "workflow_run"} \subseteq delivery.body.keys

RunCompleted ==
    /\ delivery.body.action = "completed"
    /\ delivery.body.wf_event = "pull_request"

TheRepository ==
    CHOOSE row \in rows :
        /\ row.repo_name = delivery.body.name
        /\ AssignmentById(row.assignment_id).owner = delivery.body.owner

LinkCellOf(user_id) ==
    <<get_row(user_id), get_column(TheAssignment.order, LINK)>>

Times(call) ==
    Cardinality({i \in 1..Len(outcome.calls) : outcome.calls[i] = call})

\* C12: a completed pull_request run with at least one pull request makes
\* exactly one add_repo_link call; the link (written when the student is
\* listed and the spreadsheet API answers) points to the first pull request
\* of the run, not to the list of pull requests, and its label carries that
\* number and "passed" exactly for conclusion "success", "failed" otherwise.
C12_WorkflowLink ==
    (WorkflowHandled /\ RunCompleted /\ delivery.body.pull_requests # <<>>
     /\ outcome.raised # "APIError") =>
        LET first == delivery.body.pull_requests[1]
            indicator == IF delivery.body.conclusion = "success"
                         THEN "passed" ELSE "failed"
            cell == LinkCellOf(TheRepository.user_id)
        IN
        /\ outcome.status = 200 /\ outcome.text = "OK"
        /\ Times("add_repo_link") = 1
        /\ get_row(TheRepository.user_id) # 0 =>
              /\ cell \in DOMAIN sheet
              /\ sheet[cell] =
                    Hyperlink(delivery.body.owner, delivery.body.name,
                              <<"pull", first, "files">>,
                              <<"#", first, indicator>>)

\* C12 witness: a failed run of pull request 42 of a listed student left its
\* link in the sheet.
C12_Witness ==
    /\ WorkflowHandled /\ RunCompleted
    /\ delivery.body.conclusion = "failure"
    /\ delivery.body.pull_requests = <<42>>
    /\ LinkCellOf(1) \in DOMAIN sheet
    /\ sheet[LinkCellOf(1)].label = <<"#", 42, "failed">>

\* C13: a workflow_run delivery of a known repository whose action is not
\* "completed" or whose event is not "pull_request", with or without pull
\* requests, is answered "Run not completed" and writes nothing; the link is
\* written only when both hold.
C13_RunNotCompleted ==
    /\ (WorkflowHandled /\ ~RunCompleted) =>
          /\ outcome.status = 200 /\ outcome.text = "Run not completed"
          /\ ~Made("add_repo_link")
    /\ Made("add_repo_link") => (WorkflowHandled /\ RunCompleted)

\* C14: github_webhook always ends in a response of its own, 403, 400 or
\* 200; no exception leaves it.
C14_WebhookNeverRaises ==
    Answered =>
        /\ outcome.raised = NoValue
        /\ outcome.status \in {403, 400, 200}

\* What one delivery of the webhook leaves, from the sheet and the provider
\* as they were before its first delivery, for the answers the outside world
\* can give.
SingleDelivery ==
    {LET once == github_webhook(delivery, AssignmentTable, rows, env,
                                replay.sheet, replay.closedPRs,
                                replay.protected)
     IN <<once.sheet, once.closedPRs, once.protected>> : env \in Envs}

ReplayLeavesSingleDelivery ==
    (Answered /\ replay.handled >= 2) =>
        <<sheet, closedPRs, protected>> \in SingleDelivery

\* C15: after the same webhook was delivered again, with no other delivery
\* in between, the sheet, the closed pull requests and the protected branches
\* are what one delivery leaves; no delivery changes the repository table.
C15_ReplayIdempotent ==
    []ReplayLeavesSingleDelivery /\ [][rows' = rows]_vars

\* C15 witness: an approved review was scored twice and the sheet differs
\* from what it was before the first delivery.
C15_Witness ==
    /\ Answered /\ replay.handled = 2
    /\ Made("add_score")
    /\ BonusCellOf(1) \in DOMAIN sheet
    /\ sheet # replay.sheet

\* C17: verify_signature returns true exactly for a present header that is
\* "sha256=" followed by the hex HMAC-SHA256 of the body under the secret,
\* false for any other header or none, and never raises.
C17_VerifySignature ==
    delivery # NoDelivery =>
        verify_signature(delivery.body, delivery.signature) =
            [raised |-> NoValue, value |-> ValidSignature]

(***************************************************************************)
(* SharedTemplateSpec: issuances from a table where two assignments name   *)
(* one template, and deliveries that look their repositories up            *)
(***************************************************************************)
\* The (owner, name) keys of the repositories the issuances may create.
IssuedNames ==
    {<<a.owner, RepoName(a, u)>> : a \in SharedTemplateTable, u \in Users}

\* A validly signed delivery that names the repository `key`, for an event
\* other than a review or a workflow run.
PushDelivery(key) ==
    LET body == Payload({"repository"}, key[1], key[2], NoValue, NullComment,
                        NoValue, NoValue, NoValue, <<>>)
    IN Delivery(body,
                Header(SIGNATURE_256_PREFIX
                       \o HexDigest(GITHUB_WEBHOOK_SECRET, body)),
                "push")

\* github_webhook receives such a delivery and handles it on the table as
\* the issuances have left it.
Deliver ==
    /\ \E key \in IssuedNames :
          \E result \in {github_webhook(PushDelivery(key), SharedTemplateTable,
                                        rows, env, sheet, closedPRs, protected)
                             : env \in Envs} :
              /\ delivery' = PushDelivery(key)
              /\ outcome' = [status |-> result.status, text |-> result.text,
                             raised |-> result.raised, calls |-> result.calls,
                             bonus |-> result.bonus, team |-> NoOutcome.team]
              /\ sheet' = result.sheet
              /\ closedPRs' = result.closedPRs
              /\ protected' = result.protected
    /\ UNCHANGED <<provisionVars, collabVars, cloneVars, replay>>

NextSharedTemplate ==
    \/ \E r \in Runs :
          \/ BeginFrom(r, SharedTemplateTable)
          \/ GetUserLogin(r)
          \/ CreateRepository(r)
          \/ AddTeam(r)
          \/ AddCollaborator(r)
          \/ AcceptInvitation(r)
          \/ UpsertRepository(r)
          \/ Respond(r)
          \/ AddRepoLink(r)
          \/ CloneRepo(r)
          \/ ProtectBranch(r)
          \/ CommitFinished(r)
          \/ CommitFailed(r)
    \/ Deliver

SharedTemplateSpec == Init /\ [][NextSharedTemplate]_vars

\* The rows the lookup of lines 255-260 matches for an (owner, name) key.
Matches(key) ==
    {row \in rows :
        /\ row.repo_name = key[2]
        /\ AssignmentIn(SharedTemplateTable, row.assignment_id).owner = key[1]}

\* C24: after any sequence of issuances the lookup by (repo_name, owner)
\* matches at most one row: no two rows share a repo_name under one owner,
\* and no delivery ends in an ambiguous match.
C24_LookupMatchesAtMostOne ==
    /\ \A key \in IssuedNames : Cardinality(Matches(key)) <= 1
    /\ outcome.raised # "MultipleResultsFound"

====
